---- MODULE Spec2Model ----
(***************************************************************************)
(* The model-lifecycle and streaming-generation hook (useLLM) in its two   *)
(* revisions, and the App built on it.                                     *)
(*   rev = "multi"  : preloadModel / useModel / generate / abort           *)
(*   rev = "single" : loadModel / generate / abort                         *)
(* Handles of instantiated generators are the numbers of the pipeline      *)
(* calls that built them; AbortControllers are the numbers of the runs     *)
(* that created them. 0 stands for null.                                   *)
(***************************************************************************)
EXTENDS Integers, Sequences, FiniteSets, TLC

\* ---- bounds of the model
MaxRuns == 2          \* generate() calls that start a run
MaxLoads == 2         \* pipeline() calls
MaxDeltas == 1        \* deltas forwarded to onDelta per run by the streamer
MaxTimers == 2        \* scheduled removals of one id's progress entry
MaxTicks == 2         \* calls of progress_callback, all loads together
MaxTranscript == 3    \* messages of a transcript the deltas are applied to
MaxContent == 3       \* pieces of text in the message the deltas extend

\* ---- value sets the inputs are drawn from
Models == {"m1", "m2"}
DeviceKinds == {"webgpu", "wasm"}
Undefined == "undefined"
Detecting == "detecting"
Chunks == {"", "a"}
ErrorNames == {"AbortError", "Error"}
NotAString == "<not a string>"
Contents == {"", "z", NotAString}

\* CATALOG: every entry has preferredDevice: "webgpu"
preferredDevice(id) == "webgpu"

RunIds == 1..MaxRuns
LoadIds == 1..MaxLoads

\* what a generator call can resolve with: something that is no array, an
\* empty array, or an array whose first element carries generated_text (a
\* list of chat messages; absent when hasText is FALSE)
Msg(role, content) == [role |-> role, content |-> content]
ChatOutput(c) ==
  [isArray |-> TRUE, n |-> 1, hasText |-> TRUE,
   generated_text |-> <<Msg("user", "q"), Msg("assistant", c)>>]
NoOutput ==
  [isArray |-> FALSE, n |-> 0, hasText |-> FALSE, generated_text |-> <<>>]
Outputs ==
  {NoOutput,
   [isArray |-> TRUE, n |-> 0, hasText |-> FALSE, generated_text |-> <<>>],
   [isArray |-> TRUE, n |-> 1, hasText |-> FALSE, generated_text |-> <<>>],
   [isArray |-> TRUE, n |-> 1, hasText |-> TRUE, generated_text |-> <<>>]}
  \cup {ChatOutput(c) : c \in Contents}

\* what the pipeline hands to progress_callback: any of file, url and name
\* may be missing, and so may loaded and total
InfoNames ==
  {[file |-> "f1", url |-> "u1"], [url |-> "u1", name |-> "n1"], <<>>}
InfoSizes ==
  {[loaded |-> 50, total |-> 200], [loaded |-> 200, total |-> 200],
   [loaded |-> 200], <<>>}
Infos ==
  {[f \in DOMAIN who \cup DOMAIN size |->
      IF f \in DOMAIN who THEN who[f] ELSE size[f]] :
     who \in InfoNames, size \in InfoSizes}

VARIABLES
  rev,          \* which revision of the hook is running
  probe,        \* what the capability probe of the host answers
  ready, modelId, device, loadingModel,   \* the hook's React state
  cache,        \* cacheRef: id -> handle (0: absent)
  active,       \* activeRef / generatorRef: handle (0: null)
  abortRef,     \* abortRef: the run whose controller it holds (0: null)
  loads,        \* the pipeline calls made so far
  fileProgress, \* per pipeline call, its map file key -> {loaded, total}
  snapshots,    \* per pipeline call, the snapshots handed to onProgress
  runs,         \* the generate calls that started a run
  log,          \* per run, the calls made to its onDelta / onDone / onError
  cancelled,    \* per run, whether it was cancelled while in flight
  last,         \* the hook call the last step made (SpecLoad keeps it)
  messages,     \* App: the transcript
  streaming,    \* App: the streaming flag
  loadingMap,   \* App: id -> a load is in progress
  progressMap,  \* App: id -> the latest snapshot (NoProgress: no entry)
  timers,       \* App: id -> removals of the progress entry still scheduled
  useAfter,     \* App: id -> where a handleUse waiting for its load stands
  superseded    \* App: per run, whether New chat was invoked while it ran

hookVars ==
  <<rev, probe, ready, modelId, device, loadingModel, cache, active,
    abortRef, loads, fileProgress, snapshots, runs, log, cancelled>>

\* ---- callbacks as the caller sees them
Delta(t) == [cb |-> "onDelta", arg |-> t]
Done == [cb |-> "onDone", arg |-> ""]
Err(e) == [cb |-> "onError", arg |-> e]

NoLoad == [id |-> "", dev |-> "", promise |-> "none"]
NoRun == [st |-> "idle", aborted |-> FALSE, sawAnyDelta |-> FALSE]

nLoads == Cardinality({l \in LoadIds : loads[l].promise /= "none"})
nRuns == Cardinality({r \in RunIds : runs[r].st /= "idle"})
InFlight(r) == runs[r].st = "running"
Forwarded(r) == Cardinality({i \in 1..Len(log[r]) : log[r][i].cb = "onDelta"})

\* ---- helpers
detectDevice == probe

\* controller.abort() on the controller a ref holds; a null ref does nothing
SignalAbort(rs, ref) ==
  IF ref = 0 THEN rs ELSE [rs EXCEPT ![ref].aborted = TRUE]

\* every run still in flight counts as cancelled from now on
Cancel == cancelled' = [r \in RunIds |-> cancelled[r] \/ InFlight(r)]

Call(op, id) == [op |-> op, id |-> id]

\* ---- aggregated download progress (the same in both revisions)

RECURSIVE GCD(_, _)
GCD(a, b) == IF b = 0 THEN a ELSE GCD(b, a % b)

\* the number n/d (d > 0), in lowest terms
Ratio(n, d) ==
  LET g == GCD(IF n < 0 THEN -n ELSE n, d)
  IN [num |-> n \div g, den |-> d \div g]

\* Math.min(100, q) and Math.max(0, q)
Min100(q) == IF q.num > 100 * q.den THEN Ratio(100, 1) ELSE q
Max0(q) == IF q.num < 0 THEN Ratio(0, 1) ELSE q

\* mutant: the percentage is not clamped
PercentUnclamped(loadedBytes, totalBytes) ==
  IF totalBytes > 0 THEN Ratio(loadedBytes * 100, totalBytes) ELSE Ratio(0, 1)

\* totalBytes > 0
\*   ? Math.max(0, Math.min(100, (loadedBytes / totalBytes) * 100)) : 0
\* as the exact quotient
Percent(loadedBytes, totalBytes) ==
  IF totalBytes > 0
  THEN Max0(Min100(Ratio(loadedBytes * 100, totalBytes)))
  ELSE Ratio(0, 1)

\* for (const {loaded, total} of fileProgress.values()) sum += field || 0
RECURSIVE SumBytes(_, _, _)
SumBytes(fp, keys, field) ==
  IF keys = {} THEN 0
  ELSE LET k == CHOOSE x \in keys : TRUE
       IN fp[k][field] + SumBytes(fp, keys \ {k}, field)

\* the snapshot report() hands to onProgress
report(id, fp) ==
  LET loadedBytes == SumBytes(fp, DOMAIN fp, "loaded")
      totalBytes == SumBytes(fp, DOMAIN fp, "total")
  IN [modelId |-> id, loadedBytes |-> loadedBytes, totalBytes |-> totalBytes,
      percent |-> Percent(loadedBytes, totalBytes)]

\* info?.file || info?.url || info?.name || prefix + fileProgress.size
ProgressKey(info, fp, prefix) ==
  IF "file" \in DOMAIN info THEN info.file
  ELSE IF "url" \in DOMAIN info THEN info.url
  ELSE IF "name" \in DOMAIN info THEN info.name
  ELSE prefix \o ToString(Cardinality(DOMAIN fp))

\* Number(info?.loaded ?? 0), Number(info?.total ?? 0)
NumberOr0(info, field) == IF field \in DOMAIN info THEN info[field] ELSE 0

\* fileProgress.set(key, {loaded, total})
SetProgress(fp, key, info) ==
  [k \in DOMAIN fp \cup {key} |->
     IF k = key
     THEN [loaded |-> NumberOr0(info, "loaded"), total |-> NumberOr0(info, "total")]
     ELSE fp[k]]

\* the calls of progress_callback made so far
nTicks ==
  LET RECURSIVE Count(_)
      Count(ls) == IF ls = {} THEN 0
                   ELSE LET l == CHOOSE x \in ls : TRUE
                        IN Len(snapshots[l]) + Count(ls \ {l})
  IN Count(LoadIds)

\* ======================= the multi-model hook =======================

\* hasCached: (id) => cacheRef.current.has(id)
hasCached(id) == cache[id] /= 0

\* mutant: the cache is not consulted before loading
NeverCached(id) == FALSE

\* if (cacheRef.current.has(id)) return
AlreadyCached(id) == cache[id] /= 0

\* preferred ?? detectDevice()
ResolveDevice(preferred) ==
  IF preferred /= Undefined THEN preferred ELSE detectDevice

\* pipeline("text-generation", id, {device: dev, ...}) is called and awaited
StartPipeline(id, dev) ==
  [loads EXCEPT ![nLoads + 1] = [id |-> id, dev |-> dev, promise |-> "pending"]]

preloadModel(id, preferred) ==
  /\ rev = "multi"
  /\ IF AlreadyCached(id)
     THEN UNCHANGED <<rev, probe, ready, modelId, device, loadingModel, cache,
                      active, abortRef, loads, runs, log, cancelled,
                 fileProgress, snapshots>>
     ELSE /\ nLoads < MaxLoads
          /\ LET dev == ResolveDevice(preferred) IN
               /\ device' = IF device = Detecting THEN dev ELSE device
               /\ loads' = StartPipeline(id, dev)
          /\ UNCHANGED <<rev, probe, ready, modelId, loadingModel, cache,
                         active, abortRef, runs, log, cancelled,
                 fileProgress, snapshots>>

\* mutant: all preloadModel calls aggregate into one progress map
progress_callbackShared(l, info) ==
  /\ rev = "multi"
  /\ loads[l].promise = "pending"
  /\ nTicks < MaxTicks
  /\ LET fp == SetProgress(fileProgress[1],
                           ProgressKey(info, fileProgress[1], "part-"), info)
     IN /\ fileProgress' = [k \in LoadIds |-> fp]
        /\ snapshots' = [snapshots EXCEPT ![l] = Append(@, report(loads[l].id, fp))]
  /\ UNCHANGED <<rev, probe, ready, modelId, device, loadingModel, cache,
                 active, abortRef, loads, runs, log, cancelled>>

\* the pipeline call of preloadModel reports progress
progress_callback(l, info) ==
  /\ rev = "multi"
  /\ loads[l].promise = "pending"
  /\ nTicks < MaxTicks
  /\ LET fp == SetProgress(fileProgress[l],
                           ProgressKey(info, fileProgress[l], "part-"), info)
     IN /\ fileProgress' = [fileProgress EXCEPT ![l] = fp]
        /\ snapshots' = [snapshots EXCEPT ![l] = Append(@, report(loads[l].id, fp))]
  /\ UNCHANGED <<rev, probe, ready, modelId, device, loadingModel, cache,
                 active, abortRef, loads, runs, log, cancelled>>

\* mutant: a finished preload also makes its generator the active one
preloadResolvesAndUses(l) ==
  /\ rev = "multi"
  /\ loads[l].promise = "pending"
  /\ cache' = [cache EXCEPT ![loads[l].id] = l]
  /\ loads' = [loads EXCEPT ![l].promise = "fulfilled"]
  /\ active' = l
  /\ modelId' = loads[l].id
  /\ ready' = TRUE
  /\ UNCHANGED <<rev, probe, device, loadingModel,
                 abortRef, runs, log, cancelled,
                 fileProgress, snapshots>>

\* the awaited pipeline call of preloadModel resolves with a generator
preloadResolves(l) ==
  /\ rev = "multi"
  /\ loads[l].promise = "pending"
  /\ cache' = [cache EXCEPT ![loads[l].id] = l]
  /\ loads' = [loads EXCEPT ![l].promise = "fulfilled"]
  /\ UNCHANGED <<rev, probe, ready, modelId, device, loadingModel, active,
                 abortRef, runs, log, cancelled,
                 fileProgress, snapshots>>

\* the awaited pipeline call of preloadModel rejects: preloadModel rejects
preloadRejects(l) ==
  /\ rev = "multi"
  /\ loads[l].promise = "pending"
  /\ loads' = [loads EXCEPT ![l].promise = "rejected"]
  /\ UNCHANGED <<rev, probe, ready, modelId, device, loadingModel, cache,
                 active, abortRef, runs, log, cancelled,
                 fileProgress, snapshots>>

\* mutant: useModel does not look whether the cache has the id
PreloadedAnyway(id) == FALSE

\* const generator = cacheRef.current.get(id);
\* if (!generator) throw new Error("Model not preloaded")
NotPreloaded(id) == cache[id] = 0

\* mutant: useModel forgets to stop the running generation
useModelNoStop(rs) == rs

\* abortRef.current?.abort() in useModel
useModelStop(rs) == SignalAbort(rs, abortRef)

useModel(id) ==
  /\ rev = "multi"
  /\ IF NotPreloaded(id)
     THEN UNCHANGED <<rev, probe, ready, modelId, device, loadingModel, cache,
                      active, abortRef, loads, runs, log, cancelled,
                 fileProgress, snapshots>>
     ELSE /\ runs' = useModelStop(runs)
          /\ Cancel
          /\ active' = cache[id]
          /\ modelId' = id
          /\ ready' = TRUE
          /\ UNCHANGED <<rev, probe, device, loadingModel, cache, abortRef,
                         loads, log,
                 fileProgress, snapshots>>

abort ==
  /\ rev = "multi"
  /\ IF abortRef /= 0
     THEN runs' = SignalAbort(runs, abortRef) /\ abortRef' = 0
     ELSE UNCHANGED <<runs, abortRef>>
  /\ Cancel
  /\ UNCHANGED <<rev, probe, ready, modelId, device, loadingModel, cache,
                 active, loads, log,
                 fileProgress, snapshots>>

\* mutant: generate does not look whether a generator is in use
InUseAnyway == FALSE

\* const generator = activeRef.current;
\* if (!generator) throw new Error("No model in use")
NoModelInUse == active = 0

\* mutant: generate leaves the old controller alone
generateKeepOld(rs) == rs

\* abortRef.current?.abort() in generate
generateCancelOld(rs) == SignalAbort(rs, abortRef)

\* generate up to its await: the active generator is read, the old
\* controller aborted and a new one installed
StartRun ==
  /\ IF NoModelInUse
     THEN UNCHANGED <<rev, probe, ready, modelId, device, loadingModel, cache,
                      active, abortRef, loads, runs, log, cancelled,
                 fileProgress, snapshots>>
     ELSE /\ nRuns < MaxRuns
          /\ runs' = [generateCancelOld(runs) EXCEPT ![nRuns + 1] =
                        [NoRun EXCEPT !.st = "running"]]
          /\ abortRef' = nRuns + 1
          /\ Cancel
          /\ UNCHANGED <<rev, probe, ready, modelId, device, loadingModel,
                         cache, active, loads, log,
                 fileProgress, snapshots>>

generate == rev = "multi" /\ StartRun

\* the streamer hands a chunk of text to emit
emit(r, t) ==
  IF runs[r].aborted \/ t = ""
  THEN UNCHANGED <<runs, log>>
  ELSE /\ runs' = [runs EXCEPT ![r].sawAnyDelta = TRUE]
       /\ log' = [log EXCEPT ![r] = Append(@, Delta(t))]

\* mutant: the first message is read instead of the last
ExtractFirst(output) ==
  IF output.isArray /\ output.n > 0 /\ output.hasText
       /\ Len(output.generated_text) > 0
  THEN output.generated_text[1].content
  ELSE Undefined

\* output[0]?.generated_text?.at(-1)?.content when output is an array
ExtractLast(output) ==
  IF output.isArray /\ output.n > 0 /\ output.hasText
       /\ Len(output.generated_text) > 0
  THEN output.generated_text[Len(output.generated_text)].content
  ELSE Undefined

IsNonEmptyString(v) == v \notin {Undefined, NotAString, ""}

\* mutant: the final content is delivered whatever was streamed
FallbackAlways(r, output) ==
  IF IsNonEmptyString(ExtractLast(output))
  THEN <<Delta(ExtractLast(output))>>
  ELSE <<>>

\* the callbacks generate makes once the generator call has resolved
Fallback(r, output) ==
  IF ~runs[r].sawAnyDelta /\ IsNonEmptyString(ExtractLast(output))
  THEN <<Delta(ExtractLast(output))>>
  ELSE <<>>

\* mutant: onDone is called without looking at the signal
CompletionUnchecked(r) == <<Done>>

\* if (!controller.signal.aborted) opts.onDone()
Completion(r) == IF ~runs[r].aborted THEN <<Done>> ELSE <<>>

OnResolved(r, output) == Fallback(r, output) \o Completion(r)

\* mutant: the catch reports the error and completes the run as well
OnRejectedThenDone(r, e) == IF e = "AbortError" THEN <<>> ELSE <<Err(e), Done>>

\* mutant: the catch swallows every error
OnRejectedSilent(r, e) == <<>>

\* the callbacks generate makes once the generator call has rejected
OnRejected(r, e) == IF e = "AbortError" THEN <<>> ELSE <<Err(e)>>

\* the promise generate returned for run r: the try has no finally and the
\* catch does not rethrow, so it is fulfilled once the generator call settled
generatePromise(r) ==
  IF runs[r].st = "idle" THEN "none"
  ELSE IF runs[r].st = "running" THEN "pending"
  ELSE "fulfilled"

generatorStreams(r, t) ==
  /\ rev = "multi"
  /\ InFlight(r)
  /\ Forwarded(r) < MaxDeltas
  /\ emit(r, t)
  /\ UNCHANGED <<rev, probe, ready, modelId, device, loadingModel, cache,
                 active, abortRef, loads, cancelled,
                 fileProgress, snapshots>>

generatorResolves(r, output) ==
  /\ rev = "multi"
  /\ InFlight(r)
  /\ log' = [log EXCEPT ![r] = @ \o OnResolved(r, output)]
  /\ runs' = [runs EXCEPT ![r].st = "resolved"]
  /\ UNCHANGED <<rev, probe, ready, modelId, device, loadingModel, cache,
                 active, abortRef, loads, cancelled,
                 fileProgress, snapshots>>

generatorRejects(r, e) ==
  /\ rev = "multi"
  /\ InFlight(r)
  \* an AbortError is what the aborted signal makes the call throw
  /\ e = "AbortError" => runs[r].aborted
  /\ log' = [log EXCEPT ![r] = @ \o OnRejected(r, e)]
  /\ runs' = [runs EXCEPT ![r].st = "rejected"]
  /\ UNCHANGED <<rev, probe, ready, modelId, device, loadingModel, cache,
                 active, abortRef, loads, cancelled,
                 fileProgress, snapshots>>

\* ======================= the single-model hook =======================

\* abortRef.current?.abort() in loadModel
loadModelStop(rs) == SignalAbort(rs, abortRef)

loadModel(id, preferred) ==
  /\ rev = "single"
  /\ nLoads < MaxLoads
  /\ runs' = loadModelStop(runs)
  /\ Cancel
  /\ active' = 0
  /\ ready' = FALSE
  /\ loadingModel' = TRUE
  /\ LET dev == ResolveDevice(preferred) IN
       /\ device' = dev
       /\ loads' = StartPipeline(id, dev)
  /\ modelId' = id
  /\ UNCHANGED <<rev, probe, cache, abortRef, log,
                 fileProgress, snapshots>>

\* the awaited pipeline call of loadModel resolves with a generator
loadResolves(l) ==
  /\ rev = "single"
  /\ loads[l].promise = "pending"
  /\ active' = l
  /\ ready' = TRUE
  /\ loadingModel' = FALSE
  /\ loads' = [loads EXCEPT ![l].promise = "fulfilled"]
  /\ UNCHANGED <<rev, probe, modelId, device, cache, abortRef, runs, log,
                 cancelled,
                 fileProgress, snapshots>>

\* the awaited pipeline call of loadModel rejects: catch, rethrow, finally
loadRejects(l) ==
  /\ rev = "single"
  /\ loads[l].promise = "pending"
  /\ ready' = FALSE
  /\ loadingModel' = FALSE
  /\ loads' = [loads EXCEPT ![l].promise = "rejected"]
  /\ UNCHANGED <<rev, probe, modelId, device, cache, active, abortRef, runs,
                 log, cancelled,
                 fileProgress, snapshots>>

\* the pipeline call of loadModel reports progress
progress_callbackSingle(l, info) ==
  /\ rev = "single"
  /\ loads[l].promise = "pending"
  /\ nTicks < MaxTicks
  /\ LET fp == SetProgress(fileProgress[l],
                           ProgressKey(info, fileProgress[l], "unknown-"), info)
     IN /\ fileProgress' = [fileProgress EXCEPT ![l] = fp]
        /\ snapshots' = [snapshots EXCEPT ![l] = Append(@, report(loads[l].id, fp))]
  /\ UNCHANGED <<rev, probe, ready, modelId, device, loadingModel, cache,
                 active, abortRef, loads, runs, log, cancelled>>

abortSingle ==
  /\ rev = "single"
  /\ runs' = SignalAbort(runs, abortRef)
  /\ Cancel
  /\ UNCHANGED <<rev, probe, ready, modelId, device, loadingModel, cache,
                 active, abortRef, loads, log,
                 fileProgress, snapshots>>

\* abortRef.current?.abort() in generate
generateCancelOldSingle(rs) == SignalAbort(rs, abortRef)

generateSingle ==
  /\ rev = "single"
  /\ IF active = 0
     THEN UNCHANGED <<rev, probe, ready, modelId, device, loadingModel, cache,
                      active, abortRef, loads, runs, log, cancelled,
                 fileProgress, snapshots>>
     ELSE /\ nRuns < MaxRuns
          /\ runs' = [generateCancelOldSingle(runs) EXCEPT ![nRuns + 1] =
                        [NoRun EXCEPT !.st = "running"]]
          /\ abortRef' = nRuns + 1
          /\ Cancel
          /\ UNCHANGED <<rev, probe, ready, modelId, device, loadingModel,
                         cache, active, loads, log,
                 fileProgress, snapshots>>

emitSingle(r, t) ==
  IF t = ""
  THEN UNCHANGED <<runs, log>>
  ELSE /\ runs' = [runs EXCEPT ![r].sawAnyDelta = TRUE]
       /\ log' = [log EXCEPT ![r] = Append(@, Delta(t))]

FallbackSingle(r, output) ==
  IF ~runs[r].sawAnyDelta /\ IsNonEmptyString(ExtractLast(output))
  THEN <<Delta(ExtractLast(output))>>
  ELSE <<>>

CompletionSingle(r) == IF ~runs[r].aborted THEN <<Done>> ELSE <<>>

OnResolvedSingle(r, output) == FallbackSingle(r, output) \o CompletionSingle(r)

OnRejectedSingle(r, e) == IF e = "AbortError" THEN <<>> ELSE <<Err(e)>>

generatorStreamsSingle(r, t) ==
  /\ rev = "single"
  /\ InFlight(r)
  /\ Forwarded(r) < MaxDeltas
  /\ emitSingle(r, t)
  /\ UNCHANGED <<rev, probe, ready, modelId, device, loadingModel, cache,
                 active, abortRef, loads, cancelled,
                 fileProgress, snapshots>>

generatorResolvesSingle(r, output) ==
  /\ rev = "single"
  /\ InFlight(r)
  /\ log' = [log EXCEPT ![r] = @ \o OnResolvedSingle(r, output)]
  /\ runs' = [runs EXCEPT ![r].st = "resolved"]
  /\ UNCHANGED <<rev, probe, ready, modelId, device, loadingModel, cache,
                 active, abortRef, loads, cancelled,
                 fileProgress, snapshots>>

generatorRejectsSingle(r, e) ==
  /\ rev = "single"
  /\ InFlight(r)
  \* an AbortError is what the aborted signal makes the call throw
  /\ e = "AbortError" => runs[r].aborted
  /\ log' = [log EXCEPT ![r] = @ \o OnRejectedSingle(r, e)]
  /\ runs' = [runs EXCEPT ![r].st = "rejected"]
  /\ UNCHANGED <<rev, probe, ready, modelId, device, loadingModel, cache,
                 active, abortRef, loads, cancelled,
                 fileProgress, snapshots>>

\* ======================= the hook called directly =======================

HookInit ==
  /\ rev \in {"multi", "single"}
  /\ probe \in DeviceKinds
  /\ ready = FALSE
  /\ modelId = ""
  /\ device = Detecting
  /\ loadingModel = FALSE
  /\ cache = [id \in Models |-> 0]
  /\ active = 0
  /\ abortRef = 0
  /\ loads = [l \in LoadIds |-> NoLoad]
  /\ fileProgress = [l \in LoadIds |-> <<>>]
  /\ snapshots = [l \in LoadIds |-> <<>>]
  /\ runs = [r \in RunIds |-> NoRun]
  /\ log = [r \in RunIds |-> <<>>]
  /\ cancelled = [r \in RunIds |-> FALSE]

Preferences == DeviceKinds \cup {Undefined}

\* ======================= the App on the multi-model hook =======================

appVars ==
  <<messages, streaming, loadingMap, progressMap, timers, useAfter, superseded>>

DEFAULT_SYSTEM == <<"You are a helpful assistant. Keep responses concise when possible.">>
Inputs == {"", " ", " hello "}
\* input.trim()
Trim(text) == IF text = " hello " THEN "hello" ELSE ""
\* a text as the transcript holds it: the sequence of its pieces
Text(t) == IF t = "" THEN <<>> ELSE <<t>>

NoProgress ==
  [modelId |-> "", loadedBytes |-> 0, totalBytes |-> 0, percent |-> Ratio(0, 1)]
ZeroProgress(id) ==
  [modelId |-> id, loadedBytes |-> 0, totalBytes |-> 0, percent |-> Ratio(0, 1)]

AppInit ==
  /\ messages = <<Msg("system", DEFAULT_SYSTEM)>>
  /\ streaming = FALSE
  /\ loadingMap = [id \in Models |-> FALSE]
  /\ progressMap = [id \in Models |-> NoProgress]
  /\ timers = [id \in Models |-> 0]
  /\ useAfter = [id \in Models |-> "no"]
  /\ superseded = [r \in RunIds |-> FALSE]

\* mutant: the first assistant message is taken
FirstAssistant(msgs) ==
  LET S == {i \in 1..Len(msgs) : msgs[i].role = "assistant"}
  IN IF S = {} THEN 0 ELSE CHOOSE i \in S : \A j \in S : i <= j

\* the index of the last assistant message (0: none)
LastAssistant(msgs) ==
  LET S == {i \in 1..Len(msgs) : msgs[i].role = "assistant"}
  IN IF S = {} THEN 0 ELSE CHOOSE i \in S : \A j \in S : j <= i

\* mutant: a delta that finds no assistant message opens one
updateAssistantOrAppend(prev, delta) ==
  IF delta = "" THEN prev
  ELSE LET idx == LastAssistant(prev)
       IN IF idx > 0
          THEN [prev EXCEPT ![idx].content = @ \o Text(delta)]
          ELSE Append(prev, Msg("assistant", Text(delta)))

updateAssistant(prev, delta) ==
  IF delta = "" THEN prev
  ELSE LET idx == LastAssistant(prev)
       IN IF idx > 0
          THEN [prev EXCEPT ![idx].content = @ \o Text(delta)]
          ELSE prev

\* the transcripts and deltas updateAssistant is applied to
Roles == {"system", "user", "assistant"}
Transcripts ==
  UNION {[1..n -> [role : Roles, content : {<<>>, <<"x">>}]] : n \in 0..MaxTranscript}
Deltas == {"", "Hi", " there", "!"}

\* onDelta: updateAssistant on its own
appendDelta(delta) ==
  /\ LET idx == LastAssistant(messages)
     IN idx > 0 => Len(messages[idx].content) < MaxContent
  /\ messages' = updateAssistant(messages, delta)
  /\ UNCHANGED <<hookVars, streaming, loadingMap, progressMap, timers, useAfter,
                 superseded>>

\* mutant: the failure marker is added to the text streamed so far
markFailedKeep(prev, e) ==
  LET idx == LastAssistant(prev)
  IN IF idx > 0
     THEN [prev EXCEPT ![idx].content = @ \o <<"failed: ", e>>]
     ELSE prev

\* the setMessages of onError
markFailed(prev, e) ==
  LET idx == LastAssistant(prev)
  IN IF idx > 0
     THEN [prev EXCEPT ![idx].content = <<"failed: ", e>>]
     ELSE prev

\* the App's onDelta, onDone and onError applied to the calls made, in order
RECURSIVE ApplyCalls(_, _)
ApplyCalls(msgs, calls) ==
  IF calls = <<>> THEN msgs
  ELSE LET c == Head(calls)
           m == IF c.cb = "onDelta" THEN updateAssistant(msgs, c.arg)
                ELSE IF c.cb = "onError" THEN markFailed(msgs, c.arg)
                ELSE msgs
       IN ApplyCalls(m, Tail(calls))

Settles(calls) == \E i \in 1..Len(calls) : calls[i].cb \in {"onDone", "onError"}

\* what the callbacks onSend handed to generate do when run r calls them
Callbacks(r) ==
  LET calls == SubSeq(log'[r], Len(log[r]) + 1, Len(log'[r]))
  IN /\ messages' = ApplyCalls(messages, calls)
     /\ streaming' = IF Settles(calls) THEN FALSE ELSE streaming

\* a continuation of handleUse is due before anything else runs
Microtask == \E id \in Models : useAfter[id] = "run"

\* finally of handleLoad
finallyLoad(id) ==
  /\ loadingMap' = [loadingMap EXCEPT ![id] = FALSE]
  /\ timers' = [timers EXCEPT ![id] = @ + 1]

\* handleLoad(id); use tells that handleUse called it and awaits it
handleLoadFrom(id, use) ==
  IF loadingMap[id]
  THEN UNCHANGED <<hookVars, appVars>>
  ELSE /\ timers[id] < MaxTimers
       /\ progressMap' = [progressMap EXCEPT ![id] = ZeroProgress(id)]
       /\ preloadModel(id, Undefined)
       /\ IF AlreadyCached(id)
          THEN finallyLoad(id) /\ UNCHANGED useAfter
          ELSE /\ loadingMap' = [loadingMap EXCEPT ![id] = TRUE]
               /\ useAfter' = [useAfter EXCEPT ![id] = IF use THEN "wait" ELSE "no"]
               /\ UNCHANGED timers
       /\ UNCHANGED <<messages, streaming, superseded>>

handleLoad(id) == ~Microtask /\ handleLoadFrom(id, FALSE)

handleUse(id) ==
  /\ ~Microtask
  /\ IF hasCached(id)
     THEN useModel(id) /\ UNCHANGED appVars
     ELSE handleLoadFrom(id, TRUE)

\* the preloadModel awaited by handleLoad resolves
loadDone(l) ==
  /\ ~Microtask
  /\ preloadResolves(l)
  /\ finallyLoad(loads[l].id)
  /\ useAfter' = [useAfter EXCEPT ![loads[l].id] =
                    IF @ = "wait" THEN "run" ELSE "no"]
  /\ UNCHANGED <<messages, streaming, progressMap, superseded>>

\* the preloadModel awaited by handleLoad rejects; so do handleLoad and a
\* handleUse that awaits it
loadFailed(l) ==
  /\ ~Microtask
  /\ preloadRejects(l)
  /\ finallyLoad(loads[l].id)
  /\ useAfter' = [useAfter EXCEPT ![loads[l].id] = "no"]
  /\ UNCHANGED <<messages, streaming, progressMap, superseded>>

\* handleUse goes on after its handleLoad: await useModel(id)
handleUseContinues(id) ==
  /\ useAfter[id] = "run"
  /\ useModel(id)
  /\ useAfter' = [useAfter EXCEPT ![id] = "no"]
  /\ UNCHANGED <<messages, streaming, loadingMap, progressMap, timers, superseded>>

\* the timeout set by finally fires
progressExpires(id) ==
  /\ ~Microtask
  /\ timers[id] > 0
  /\ timers' = [timers EXCEPT ![id] = @ - 1]
  /\ progressMap' = [progressMap EXCEPT ![id] = NoProgress]
  /\ UNCHANGED <<hookVars, messages, streaming, loadingMap, useAfter, superseded>>

canSend == ready /\ ~streaming

onSend(input) ==
  /\ ~Microtask
  /\ IF Trim(input) = "" \/ ~canSend
     THEN UNCHANGED <<hookVars, appVars>>
     ELSE /\ generate
          /\ messages' = messages \o <<Msg("user", Text(Trim(input))),
                                       Msg("assistant", <<>>)>>
          /\ streaming' = (active /= 0)
          /\ UNCHANGED <<loadingMap, progressMap, timers, useAfter, superseded>>

\* mutant: New chat leaves an empty transcript
onNewChatEmpty ==
  /\ ~Microtask
  /\ IF streaming THEN abort ELSE UNCHANGED hookVars
  /\ messages' = <<>>
  /\ superseded' = [r \in RunIds |-> superseded[r] \/ (streaming /\ InFlight(r))]
  /\ UNCHANGED <<streaming, loadingMap, progressMap, timers, useAfter>>

onNewChat ==
  /\ ~Microtask
  /\ IF streaming THEN abort ELSE UNCHANGED hookVars
  /\ messages' = <<Msg("system", DEFAULT_SYSTEM)>>
  /\ superseded' = [r \in RunIds |-> superseded[r] \/ (streaming /\ InFlight(r))]
  /\ UNCHANGED <<streaming, loadingMap, progressMap, timers, useAfter>>

\* the Stop button, shown while streaming
onStop ==
  /\ ~Microtask
  /\ streaming
  /\ abort
  /\ UNCHANGED appVars

streams(r, t) ==
  /\ ~Microtask
  /\ generatorStreams(r, t)
  /\ Callbacks(r)
  /\ UNCHANGED <<loadingMap, progressMap, timers, useAfter, superseded>>

resolves(r, output) ==
  /\ ~Microtask
  /\ generatorResolves(r, output)
  /\ Callbacks(r)
  /\ UNCHANGED <<loadingMap, progressMap, timers, useAfter, superseded>>

rejects(r, e) ==
  /\ ~Microtask
  /\ generatorRejects(r, e)
  /\ Callbacks(r)
  /\ UNCHANGED <<loadingMap, progressMap, timers, useAfter, superseded>>

AppNext ==
  \/ \E id \in Models : handleLoad(id) /\ UNCHANGED last
  \/ \E id \in Models : handleUse(id) /\ UNCHANGED last
  \/ \E l \in LoadIds : loadDone(l) /\ UNCHANGED last
  \/ \E l \in LoadIds : loadFailed(l) /\ UNCHANGED last
  \/ \E id \in Models : handleUseContinues(id) /\ UNCHANGED last
  \/ \E id \in Models : progressExpires(id) /\ UNCHANGED last
  \/ \E input \in Inputs : onSend(input) /\ UNCHANGED last
  \/ onNewChat /\ UNCHANGED last
  \/ onStop /\ UNCHANGED last
  \/ \E r \in RunIds, t \in Chunks : streams(r, t) /\ UNCHANGED last
  \/ \E r \in RunIds, output \in Outputs : resolves(r, output) /\ UNCHANGED last
  \/ \E r \in RunIds, e \in ErrorNames : rejects(r, e) /\ UNCHANGED last

\* Chat: the App with models that load without failing, on a host that
\* offers WebGPU; sending, streaming, Stop, New chat and switching the model
\* in every order.
ChatNext ==
  \/ \E id \in Models : handleUse(id) /\ UNCHANGED last
  \/ \E l \in LoadIds : loadDone(l) /\ UNCHANGED last
  \/ \E id \in Models : handleUseContinues(id) /\ UNCHANGED last
  \/ \E input \in Inputs : onSend(input) /\ UNCHANGED last
  \/ onNewChat /\ UNCHANGED last
  \/ onStop /\ UNCHANGED last
  \/ \E r \in RunIds, t \in Chunks : streams(r, t) /\ UNCHANGED last
  \/ \E r \in RunIds, output \in Outputs : resolves(r, output) /\ UNCHANGED last
  \/ \E r \in RunIds, e \in ErrorNames : rejects(r, e) /\ UNCHANGED last

\* no pipeline call has been made for id yet
FirstLoad(id) == \A l \in LoadIds : loads[l].id /= id

\* Generation: every id is loaded at most once, by the call the App makes
\* (no device preference), and no load fails; the generator calls stream,
\* resolve and reject in every order.
GenNext ==
  \/ \E id \in Models : FirstLoad(id) /\ preloadModel(id, Undefined) /\ UNCHANGED <<last, appVars>>
  \/ \E l \in LoadIds : preloadResolves(l) /\ UNCHANGED <<last, appVars>>
  \/ \E id \in Models : useModel(id) /\ UNCHANGED <<last, appVars>>
  \/ abort /\ UNCHANGED <<last, appVars>>
  \/ generate /\ UNCHANGED <<last, appVars>>
  \/ \E r \in RunIds, t \in Chunks : generatorStreams(r, t) /\ UNCHANGED <<last, appVars>>
  \/ \E r \in RunIds, output \in Outputs : generatorResolves(r, output) /\ UNCHANGED <<last, appVars>>
  \/ \E r \in RunIds, e \in ErrorNames : generatorRejects(r, e) /\ UNCHANGED <<last, appVars>>
  \/ \E id \in Models : FirstLoad(id) /\ loadModel(id, Undefined) /\ UNCHANGED <<last, appVars>>
  \/ \E l \in LoadIds : loadResolves(l) /\ UNCHANGED <<last, appVars>>
  \/ abortSingle /\ UNCHANGED <<last, appVars>>
  \/ generateSingle /\ UNCHANGED <<last, appVars>>
  \/ \E r \in RunIds, t \in Chunks : generatorStreamsSingle(r, t) /\ UNCHANGED <<last, appVars>>
  \/ \E r \in RunIds, output \in Outputs : generatorResolvesSingle(r, output) /\ UNCHANGED <<last, appVars>>
  \/ \E r \in RunIds, e \in ErrorNames : generatorRejectsSingle(r, e) /\ UNCHANGED <<last, appVars>>

\* Loading: loads of any id with any preference, repeated and overlapping,
\* succeeding and failing; generator calls stay pending. Every step records
\* the call it made.
LoadNext ==
  \/ \E id \in Models, preferred \in Preferences :
       preloadModel(id, preferred) /\ last' = Call("preloadModel", id) /\ UNCHANGED appVars
  \/ \E l \in LoadIds : preloadResolves(l) /\ last' = Call("settle", "") /\ UNCHANGED appVars
  \/ \E l \in LoadIds : preloadRejects(l) /\ last' = Call("settle", "") /\ UNCHANGED appVars
  \/ \E id \in Models : useModel(id) /\ last' = Call("useModel", id) /\ UNCHANGED appVars
  \/ abort /\ last' = Call("abort", "") /\ UNCHANGED appVars
  \/ generate /\ last' = Call("generate", "") /\ UNCHANGED appVars
  \/ \E id \in Models, preferred \in Preferences :
       loadModel(id, preferred) /\ last' = Call("loadModel", id) /\ UNCHANGED appVars
  \/ \E l \in LoadIds : loadResolves(l) /\ last' = Call("settle", "") /\ UNCHANGED appVars
  \/ \E l \in LoadIds : loadRejects(l) /\ last' = Call("settle", "") /\ UNCHANGED appVars
  \/ abortSingle /\ last' = Call("abort", "") /\ UNCHANGED appVars
  \/ generateSingle /\ last' = Call("generate", "") /\ UNCHANGED appVars

\* Progress: loads of different ids, overlapping in the multi-model hook,
\* whose pipeline calls report progress before they resolve.
ProgressNext ==
  \/ \E id \in Models : FirstLoad(id) /\ preloadModel(id, Undefined) /\ UNCHANGED <<last, appVars>>
  \/ \E l \in LoadIds, info \in Infos : progress_callback(l, info) /\ UNCHANGED <<last, appVars>>
  \/ \E l \in LoadIds : preloadResolves(l) /\ UNCHANGED <<last, appVars>>
  \/ \E id \in Models : FirstLoad(id) /\ loadModel(id, Undefined) /\ UNCHANGED <<last, appVars>>
  \/ \E l \in LoadIds, info \in Infos : progress_callbackSingle(l, info) /\ UNCHANGED <<last, appVars>>
  \/ \E l \in LoadIds : loadResolves(l) /\ UNCHANGED <<last, appVars>>

\* Transcript: deltas applied to a transcript of any shape.
TranscriptNext ==
  \E delta \in Deltas : appendDelta(delta) /\ last' = Call("onDelta", delta)

vars == <<hookVars, last, appVars>>

Init == HookInit /\ last = Call("init", "") /\ AppInit
\* generation does not depend on the device: the host offers WebGPU
GenStart == Init /\ probe = "webgpu"
Spec == GenStart /\ [][GenNext]_vars
SpecLoad == Init /\ [][LoadNext]_vars

SpecProgress == GenStart /\ [][ProgressNext]_vars

TranscriptStart ==
  /\ HookInit /\ rev = "multi" /\ probe = "webgpu"
  /\ last = Call("init", "")
  /\ messages \in Transcripts
  /\ streaming = FALSE
  /\ loadingMap = [id \in Models |-> FALSE]
  /\ progressMap = [id \in Models |-> NoProgress]
  /\ timers = [id \in Models |-> 0]
  /\ useAfter = [id \in Models |-> "no"]
  /\ superseded = [r \in RunIds |-> FALSE]
SpecTranscript == TranscriptStart /\ [][TranscriptNext]_vars

\* the App mounts the multi-model hook
AppStart == Init /\ rev = "multi"
SpecApp == AppStart /\ [][AppNext]_vars
ChatStart == AppStart /\ probe = "webgpu"
SpecChat == ChatStart /\ [][ChatNext]_vars

\* ======================= the claims =======================

\* the calls a step adds to the callbacks of run r
NewCalls(r) == SubSeq(log'[r], Len(log[r]) + 1, Len(log'[r]))
NoNew(r, cb) == \A i \in 1..Len(NewCalls(r)) : NewCalls(r)[i].cb /= cb
Calls(r, cb) == Cardinality({i \in 1..Len(log[r]) : log[r][i].cb = cb})

\* C1 (as claimed): in the multi-model hook, no step calls onDelta of a run
\* that was cancelled before the step, whatever the generator call does.
C1_NoDeltaAfterCancel ==
  [][rev = "multi" => \A r \in RunIds : cancelled[r] => NoNew(r, "onDelta")]_vars

\* C2 (as claimed): in the multi-model hook, no step calls onError of a run
\* that was cancelled before the step, however the generator call ends.
C2_NoErrorAfterCancel ==
  [][rev = "multi" => \A r \in RunIds : cancelled[r] => NoNew(r, "onError")]_vars

\* C3: in both revisions, no step calls onDone of a run that was cancelled
\* before the step, also not the step in which its generator call resolves.
C3_NoDoneAfterCancel ==
  [][\A r \in RunIds : cancelled[r] => NoNew(r, "onDone")]_vars

\* a cancelled run whose generator call went on to resolve normally
C3_Witness ==
  \E r \in RunIds :
    cancelled[r] /\ runs[r].st = "resolved" /\ Calls(r, "onDone") = 0

\* C5: in both revisions, at most one run has a controller that has not
\* been aborted.
C5_OneLiveController ==
  Cardinality({r \in RunIds : runs[r].st /= "idle" /\ ~runs[r].aborted}) <= 1

\* a second generate() superseded a run that is still in flight
C5_Witness ==
  \E r1, r2 \in RunIds :
    /\ r1 /= r2
    /\ InFlight(r1) /\ runs[r1].aborted
    /\ InFlight(r2) /\ ~runs[r2].aborted

\* C6: in the state a step leaves that switched the active generator of the
\* multi-model hook, the controller of every run in flight is aborted.
C6_SwitchAbortsFirst ==
  [][(rev = "multi" /\ active' /= active)
       => \A r \in RunIds : InFlight(r) => runs'[r].aborted]_vars

\* useModel switched to another cached generator while a run was in flight:
\* abortRef still holds the controller it aborted
C6_Witness ==
  /\ rev = "multi"
  /\ abortRef /= 0
  /\ InFlight(abortRef) /\ runs[abortRef].aborted
  /\ modelId = "m2" /\ active = cache["m2"] /\ cache["m1"] /= 0

\* the content of the last message of a final output that has one
HasLastMessage(output) ==
  output.isArray /\ output.n > 0 /\ output.hasText
    /\ output.generated_text /= <<>>
LastContent(output) ==
  output.generated_text[Len(output.generated_text)].content

\* the generator call of run r resolves with output, in either revision
Resolves(r, output) ==
  generatorResolves(r, output) \/ generatorResolvesSingle(r, output)

\* the generator call of run r resolves in this step, and r was not
\* cancelled and has forwarded no delta
PlainResolve(r) ==
  /\ InFlight(r) /\ runs'[r].st = "resolved"
  /\ ~cancelled[r]
  /\ Calls(r, "onDelta") = 0

\* C10 (as claimed): when the generator call of a run resolves that was not
\* cancelled and forwarded no delta, and the final output ends with a message
\* of string content, generate calls onDelta once with that content and then
\* onDone.
C10_FallbackAlways ==
  [][\A r \in RunIds : PlainResolve(r) =>
       \A output \in Outputs :
         (/\ Resolves(r, output)
          /\ HasLastMessage(output)
          /\ LastContent(output) /= NotAString)
         => NewCalls(r) = <<Delta(LastContent(output)), Done>>]_vars

\* C10 (amended): ... generate calls onDelta once with the content of the last
\* message and then onDone when that content is a non-empty string; when the
\* final output has no last message, or its content is empty or no string,
\* generate calls onDone alone.
C10_Fallback ==
  [][\A r \in RunIds : PlainResolve(r) =>
       \A output \in Outputs :
         Resolves(r, output)
         => NewCalls(r) =
              IF HasLastMessage(output)
                   /\ LastContent(output) \notin {NotAString, ""}
              THEN <<Delta(LastContent(output)), Done>>
              ELSE <<Done>>]_vars

\* a run that streamed nothing delivered the final content and completed
C10_Witness ==
  \E r \in RunIds :
    /\ runs[r].st = "resolved" /\ ~cancelled[r] /\ ~runs[r].sawAnyDelta
    /\ log[r] = <<Delta("z"), Done>>

\* the pipeline calls for id that are still pending
Pending(id) ==
  {l \in LoadIds : loads[l].id = id /\ loads[l].promise = "pending"}

\* C7 (as claimed): in the multi-model hook no id ever has two pipeline
\* calls pending at once.
C7_OneInstantiationPending ==
  rev = "multi" => \A id \in Models : Cardinality(Pending(id)) <= 1

\* C8: a step that calls preloadModel(id) while id is in the cache makes no
\* pipeline call, emits no snapshot and leaves cache, active generator,
\* ready, modelId and device as they were.
C8_PreloadCachedIsNoop ==
  [][\A id \in Models :
       (last' = Call("preloadModel", id) /\ cache[id] /= 0)
       => UNCHANGED <<cache, active, ready, modelId, device, loads,
                      fileProgress, snapshots>>]_vars

\* preloadModel was called for an id the cache holds
C8_Witness ==
  \E id \in Models : last = Call("preloadModel", id) /\ cache[id] /= 0

\* C9 (as claimed): in the state a failing pipeline call of preloadModel(id)
\* leaves, preloadModel has rejected, id is not cached and every other id
\* has the cache entry it had.
C9_FailedPreloadNotCached ==
  [][\A l \in LoadIds :
       preloadRejects(l)
       => /\ loads'[l].promise = "rejected"
          /\ cache'[loads[l].id] = 0
          /\ \A id \in Models \ {loads[l].id} : cache'[id] = cache[id]]_vars

\* the generator call of run r rejects with e, in either revision
Rejects(r, e) ==
  generatorRejects(r, e) \/ generatorRejectsSingle(r, e)

\* C11: when the generator call of a run rejects with an AbortError, the
\* step calls no callback of the run; when it rejects with another error and
\* the run was not cancelled, the step calls onError once with that error
\* and nothing else; either way the promise of generate is fulfilled.
C11_ErrorPolicy ==
  [][\A r \in RunIds :
       (InFlight(r) /\ runs'[r].st = "rejected") =>
         \A e \in ErrorNames :
           Rejects(r, e) =>
             /\ generatePromise(r)' = "fulfilled"
             /\ IF e = "AbortError" THEN NewCalls(r) = <<>>
                ELSE ~cancelled[r] => NewCalls(r) = <<Err(e)>>]_vars

\* a run that was not cancelled ended with the error of its generator call,
\* and another one with the AbortError of its cancellation
C11_Witness ==
  \E r1, r2 \in RunIds :
    /\ runs[r1].st = "rejected" /\ ~cancelled[r1]
    /\ Calls(r1, "onError") = 1 /\ Calls(r1, "onDone") = 0
    /\ runs[r2].st = "rejected" /\ cancelled[r2]
    /\ Calls(r2, "onError") = 0 /\ Calls(r2, "onDone") = 0

\* C12: a step that calls generate() while no generator is active creates
\* no controller, aborts none, starts no run and calls no callback.
C12_NotReady ==
  [][(last' = Call("generate", "") /\ active = 0)
       => UNCHANGED <<runs, abortRef, log, cancelled, active, ready>>]_vars

\* generate() was called with no generator active, after an earlier run
C12_Witness ==
  /\ last = Call("generate", "") /\ active = 0
  /\ \E r \in RunIds : runs[r].st /= "idle"

\* C13: a step that calls useModel(id) for an id the cache does not hold
\* makes no pipeline call and leaves the active generator, ready, modelId,
\* the cache and every controller as they were.
C13_UseUncached ==
  [][\A id \in Models :
       (last' = Call("useModel", id) /\ cache[id] = 0)
       => UNCHANGED <<active, ready, modelId, cache, loads, runs, abortRef,
                      cancelled, fileProgress, snapshots>>]_vars

\* useModel was called for an uncached id while a generation was running
C13_Witness ==
  \E id \in Models :
    /\ last = Call("useModel", id) /\ cache[id] = 0
    /\ \E r \in RunIds : InFlight(r) /\ ~runs[r].aborted

\* C14: in the multi-model hook, a step that calls preloadModel or in which
\* its pipeline call resolves or rejects leaves the active generator, ready,
\* modelId and every controller as they were.
C14_PreloadLeavesActive ==
  [][(rev = "multi" /\ last'.op \in {"preloadModel", "settle"})
       => UNCHANGED <<active, ready, modelId, runs, abortRef, cancelled>>]_vars

\* a preload ended, and one failed, while a generation was running on the
\* active model
C14_Witness ==
  /\ rev = "multi" /\ last.op = "settle" /\ ready /\ active /= 0
  /\ \E l \in LoadIds : loads[l].promise = "rejected"
  /\ \E r \in RunIds : InFlight(r) /\ ~runs[r].aborted

\* the sum of the latest values of a field over the file keys of a load
RECURSIVE Latest(_, _, _)
Latest(l, keys, field) ==
  IF keys = {} THEN 0
  ELSE LET k == CHOOSE x \in keys : TRUE
       IN fileProgress[l][k][field] + Latest(l, keys \ {k}, field)

\* the percent of a snapshot is the number k
IsPercent(snapshot, k) == snapshot.percent.num = k * snapshot.percent.den

\* C15: the last snapshot a load handed to onProgress has loadedBytes and
\* totalBytes equal to the sums of the latest loaded and total values over
\* its file keys, and percent 0 when totalBytes is 0, 100 when loadedBytes
\* exceeds totalBytes and loadedBytes*100/totalBytes otherwise; ticks
\* {50, 200} and {200, 200} of one file give percents 25 and 100.
C15_Aggregation ==
  \A l \in LoadIds :
    snapshots[l] /= <<>> =>
      LET snapshot == snapshots[l][Len(snapshots[l])]
          loadedBytes == Latest(l, DOMAIN fileProgress[l], "loaded")
          totalBytes == Latest(l, DOMAIN fileProgress[l], "total")
      IN /\ snapshot.loadedBytes = loadedBytes
         /\ snapshot.totalBytes = totalBytes
         /\ IF totalBytes = 0 THEN IsPercent(snapshot, 0)
            ELSE IF loadedBytes > totalBytes THEN IsPercent(snapshot, 100)
            ELSE snapshot.percent.num * totalBytes
                   = loadedBytes * 100 * snapshot.percent.den
         /\ (/\ Cardinality(DOMAIN fileProgress[l]) = 1
             /\ Len(snapshots[l]) = 2
             /\ snapshots[l][1].loadedBytes = 50
             /\ snapshots[l][1].totalBytes = 200
             /\ snapshot.loadedBytes = 200
             /\ snapshot.totalBytes = 200)
            => IsPercent(snapshots[l][1], 25) /\ IsPercent(snapshot, 100)

\* one file reported {50, 200} and then {200, 200}
C15_Witness ==
  \E l \in LoadIds :
    /\ DOMAIN fileProgress[l] = {"f1"}
    /\ Len(snapshots[l]) = 2
    /\ snapshots[l][1].loadedBytes = 50 /\ snapshots[l][1].totalBytes = 200
    /\ fileProgress[l]["f1"] = [loaded |-> 200, total |-> 200]
    /\ IsPercent(snapshots[l][1], 25) /\ IsPercent(snapshots[l][2], 100)

\* the text a content stands for
RECURSIVE Join(_)
Join(pieces) == IF pieces = <<>> THEN "" ELSE Head(pieces) \o Join(Tail(pieces))

\* i is the last message of msgs whose role is assistant
IsLastAssistant(msgs, i) ==
  /\ msgs[i].role = "assistant"
  /\ \A j \in (i + 1)..Len(msgs) : msgs[j].role /= "assistant"

\* C16: a step that applies updateAssistant with a non-empty delta keeps the
\* length of the transcript, every role and the content of every message but
\* the last assistant message, whose content becomes its old content
\* followed by the delta; a transcript without assistant message is left as
\* it is. So "!" after "Hi" and " there" gives "Hi there!".
C16_UpdateAssistant ==
  [][\A delta \in Deltas \ {""} :
       last' = Call("onDelta", delta) =>
         /\ Len(messages') = Len(messages)
         /\ \A i \in 1..Len(messages) :
              /\ messages'[i].role = messages[i].role
              /\ Join(messages'[i].content) =
                   IF IsLastAssistant(messages, i)
                   THEN Join(messages[i].content) \o delta
                   ELSE Join(messages[i].content)
              /\ ~IsLastAssistant(messages, i) =>
                   messages'[i] = messages[i]
         /\ (/\ Len(messages) = 3
             /\ messages[3].role = "assistant"
             /\ Join(messages[3].content) = "Hi there" /\ delta = "!")
            => Join(messages'[3].content) = "Hi there!"]_vars

\* [system, user, assistant:""] after the deltas "Hi", " there" and "!"
C16_Witness ==
  /\ Len(messages) = 3
  /\ messages[1].role = "system" /\ messages[2].role = "user"
  /\ messages[3].role = "assistant"
  /\ messages[3].content = <<"Hi", " there", "!">>
  /\ Join(messages[3].content) = "Hi there!"
  /\ last = Call("onDelta", "!")

\* C17: a step in which New chat is invoked while a generation is streaming
\* leaves the transcript [system], and no later step in which the run it
\* superseded calls a callback changes the transcript.
C17_ResetDropsLateText ==
  [][/\ (onNewChat /\ streaming)
        => messages' = <<Msg("system", DEFAULT_SYSTEM)>>
     /\ \A r \in RunIds :
          (superseded[r] /\ NewCalls(r) /= <<>>) => messages' = messages]_vars

\* the run superseded by New chat ended with generate's fallback delta, and
\* the transcript is still [system]
C17_Witness ==
  \E r \in RunIds :
    /\ superseded[r] /\ runs[r].st = "resolved"
    /\ log[r] = <<Delta("z")>>
    /\ messages = <<Msg("system", DEFAULT_SYSTEM)>>

\* C18 (as claimed): in the App, every pipeline call is handed the
\* preferredDevice of the catalog entry of its model.
C18_PreferredDeviceWins ==
  \A l \in LoadIds :
    loads[l].promise /= "none" => loads[l].dev = preferredDevice(loads[l].id)

\* C19 (as claimed): in the multi-model hook, whenever ready is true the
\* active generator is the handle the cache holds for modelId.
C19_ActiveIsCached ==
  (rev = "multi" /\ ready) => active = cache[modelId]

\* C20 (as claimed): in the single-model hook, no step calls onDelta, onDone
\* or onError of a run that was cancelled before the step.
C20_SingleSilentAfterCancel ==
  [][rev = "single" => \A r \in RunIds : cancelled[r] => NewCalls(r) = <<>>]_vars

\* C21 (as claimed): in the single-model hook, ready is true exactly when a
\* generator is installed, and the installed generator was built for modelId.
C21_ReadyIffInstalled ==
  rev = "single" =>
    /\ ready <=> active /= 0
    /\ active /= 0 => loads[active].id = modelId

\* C22: in the multi-model hook with preloads of distinct ids in flight, a
\* progress tick of one call appends one snapshot to that call only, with
\* the modelId of the call and the sums over the files of the call, whose
\* map gains at most one key, and leaves map and snapshots of every other
\* call alone; every call that succeeded has its id cached with the handle
\* its own pipeline call returned.
C22_IndependentPreloads ==
  [][rev = "multi" =>
       /\ \A l \in LoadIds :
            snapshots'[l] /= snapshots[l] =>
              LET snapshot == snapshots'[l][Len(snapshots'[l])]
              IN /\ SubSeq(snapshots'[l], 1, Len(snapshots[l])) = snapshots[l]
                 /\ Len(snapshots'[l]) = Len(snapshots[l]) + 1
                 /\ snapshot.modelId = loads[l].id
                 /\ snapshot.loadedBytes =
                      Latest(l, DOMAIN fileProgress[l], "loaded")'
                 /\ snapshot.totalBytes =
                      Latest(l, DOMAIN fileProgress[l], "total")'
                 /\ Cardinality(DOMAIN fileProgress'[l] \ DOMAIN fileProgress[l]) <= 1
                 /\ \A k \in DOMAIN fileProgress[l] \cap DOMAIN fileProgress'[l] :
                      fileProgress'[l][k] /= fileProgress[l][k]
                        => DOMAIN fileProgress'[l] = DOMAIN fileProgress[l]
                 /\ \A other \in LoadIds \ {l} :
                      /\ fileProgress'[other] = fileProgress[other]
                      /\ snapshots'[other] = snapshots[other]
       /\ \A l \in LoadIds :
            loads'[l].promise = "fulfilled" => cache'[loads'[l].id] = l]_vars

\* two preloads of distinct ids, in flight together, have each reported on
\* a file of the same name
C22_Witness ==
  /\ rev = "multi"
  /\ loads[1].promise = "pending" /\ loads[2].promise = "pending"
  /\ loads[1].id /= loads[2].id
  /\ fileProgress[1] = [f \in {"f1"} |-> [loaded |-> 50, total |-> 200]]
  /\ fileProgress[2] = [f \in {"f1"} |-> [loaded |-> 200, total |-> 200]]
  /\ snapshots[1][1].modelId = loads[1].id
  /\ snapshots[2][1].modelId = loads[2].id

RECURSIVE DeltasOf(_)
DeltasOf(calls) ==
  IF calls = <<>> THEN <<>>
  ELSE (IF Head(calls).cb = "onDelta" THEN <<Head(calls).arg>> ELSE <<>>)
         \o DeltasOf(Tail(calls))

\* C24: in both revisions, the step in which the generator call of a run
\* resolves that has forwarded a delta calls onDelta no more; so the deltas
\* of a run are either streamed chunks only or the one final content.
C24_NoDoubleDelivery ==
  [][\A r \in RunIds :
       /\ (InFlight(r) /\ runs'[r].st = "resolved" /\ Calls(r, "onDelta") > 0)
            => NoNew(r, "onDelta")
       /\ LET deltas == DeltasOf(log'[r])
          IN \/ \A i \in 1..Len(deltas) : deltas[i] \in Chunks \ {""}
             \/ /\ Len(deltas) = 1
                /\ deltas[1] \in Contents \ {"", NotAString}]_vars

\* a run streamed a chunk and then completed without the fallback delta
C24_Witness ==
  \E r \in RunIds :
    /\ runs[r].st = "resolved" /\ runs[r].sawAnyDelta
    /\ log[r] = <<Delta("a"), Done>>

\* C25: the App's transcript always has a first message of role system and
\* no other message of that role.
C25_OneSystemFirst ==
  /\ Len(messages) >= 1
  /\ messages[1].role = "system"
  /\ \A i \in 2..Len(messages) : messages[i].role /= "system"

\* a second exchange, streaming, after one that failed
C25_Witness ==
  /\ Len(messages) = 5
  /\ messages[3] = Msg("assistant", <<"failed: ", "Error">>)
  /\ messages[5] = Msg("assistant", <<"a">>)

\* C26: a step in which a run calls onError with e leaves streaming false
\* and the transcript as long as it was, with the content of the last
\* assistant message replaced by the failure marker of e and every other
\* message as it was.
C26_FailureMarker ==
  [][\A r \in RunIds, e \in ErrorNames :
       (NewCalls(r) /= <<>> /\ NewCalls(r)[Len(NewCalls(r))] = Err(e)) =>
         /\ streaming' = FALSE
         /\ Len(messages') = Len(messages)
         /\ \A i \in 1..Len(messages) :
              messages'[i] =
                IF IsLastAssistant(messages, i)
                THEN Msg("assistant", <<"failed: ", e>>)
                ELSE messages[i]]_vars

\* a run that had streamed text failed: the marker replaced the text
C26_Witness ==
  /\ ~streaming
  /\ \E r \in RunIds : log[r] = <<Delta("a"), Err("Error")>>
  /\ Len(messages) = 3
  /\ messages[3] = Msg("assistant", <<"failed: ", "Error">>)

\* C27 (as claimed): in the App, progressMap has an entry for every id whose
\* load is in progress.
C27_ProgressWhileLoading ==
  \A id \in Models : loadingMap[id] => progressMap[id] /= NoProgress

\* C4 (as claimed): in the App, once no generator call is in flight any more
\* the streaming flag is false again.
C4_StreamingEnds ==
  (\A r \in RunIds : ~InFlight(r)) => ~streaming

====
